---- MODULE Spec2Model ----
(***************************************************************************)
(* Model of the e-commerce analysis notebooks.                             *)
(*                                                                         *)
(*   notebooks/04_sales_forecasting.ipynb   the forecasting notebook, one  *)
(*       action per step of its cells, run top to bottom; an exception     *)
(*       halts the run.                                                    *)
(*   notebooks/03_customer_segmentation.ipynb   RFM quantile scoring and   *)
(*       (second notebook of the same file) the outlier-handling cell of   *)
(*       the cleaning notebook.                                            *)
(*                                                                         *)
(* Timestamps are whole hours since an epoch (Day hours to a day).         *)
(* Numbers the libraries compute in floating point are modelled exactly:   *)
(* a mean is the pair (num, den), a root is kept as its radicand.          *)
(***************************************************************************)
EXTENDS Integers, Sequences, FiniteSets, TLC

VARIABLES
    csv,                 \* cleaned_sales_data.csv: [exists, rows]
    pc,                  \* the step the notebook runs next, "done" or "halted"
    df,                  \* the loaded frame: rows [order_date, price]
    daily_sales,         \* the zero-filled daily series: entries [date, price]
    decomposition,       \* TRUE once seasonal_decompose has returned
    train_data,
    test_data,
    ma_predictions,
    hw_predictions,
    sarima_predictions,
    metrics_df,
    forecast_df,
    final_model,         \* the model of the future forecast: [model, endog]
    files,               \* the CSV files written by the save cell
    trace,               \* the steps run so far, each with its outcome
    fn,                  \* the helper applied on its own (pure-function runs)
    args,                \* its arguments
    result               \* its result

vars == << csv, pc, df, daily_sales, decomposition, train_data, test_data,
           ma_predictions, hw_predictions, sarima_predictions, metrics_df,
           forecast_df, final_model, files, trace, fn, args, result >>

nbvars == << csv, pc, df, daily_sales, decomposition, train_data, test_data,
             ma_predictions, hw_predictions, sarima_predictions, metrics_df,
             forecast_df, final_model, files, trace >>

fnvars == << fn, args, result >>

----------------------------------------------------------------------------
(* Bounds of the input families.                                           *)

MaxRows == 2             \* rows of the input CSV
MaxDay == 17             \* the forecasting runs draw order dates from days 0..MaxDay
PrepMaxDay == 2          \* the preparation runs draw them from days 0..PrepMaxDay
MaxPrice == 1            \* prices 0..MaxPrice
MaxLen == 4              \* length of a series given to a helper on its own
MaxPairLen == 3          \* length of the actual and predicted sequences
MaxValue == 2            \* values 0..MaxValue of such a series
MaxWindow == 3           \* windows 1..MaxWindow of the moving average
MaxCustomers == 5        \* customers scored by the RFM cell
MaxMetric == 3           \* span of the values of one RFM metric

(* Program constants.                                                      *)

Day == 24                \* hours in the step of pd.date_range (freq 'D')
period == 7              \* seasonal period of decomposition and both models
future_periods == 30     \* horizon of the final forecast

TimesOfDay == {0, 12}    \* hour of the day of an order timestamp
Prices == 0 .. MaxPrice

----------------------------------------------------------------------------
(* Generic helpers.                                                        *)

RECURSIVE SumSeq(_)
SumSeq(s) == IF s = << >> THEN 0 ELSE Head(s) + SumSeq(Tail(s))

Abs(x) == IF x < 0 THEN -x ELSE x

SetMin(S) == CHOOSE x \in S : \A y \in S : x <= y
SetMax(S) == CHOOSE x \in S : \A y \in S : x >= y

SeqOf(S, n) == UNION { [1 .. k -> S] : k \in 0 .. n }

Column(rows, col) == [i \in DOMAIN rows |-> rows[i][col]]

Range(s) == { s[i] : i \in DOMAIN s }

----------------------------------------------------------------------------
(* 04_sales_forecasting: data preparation.                                 *)

StepOrder == << "load", "prepare", "decompose", "split", "moving_average",
                "holt_winters", "sarima", "evaluate", "final_forecast", "save" >>

Ran(step, ok) == [step |-> step, ok |-> ok]

\* pd.to_datetime on the order_date text of a CSV row: day and hour of the
\* day become one timestamp.
to_datetime(text) == text.day * Day + text.hour

\* df.groupby('order_date')['price'].sum(): one entry per distinct order_date,
\* keyed by it, holding the sum of the prices of the rows that carry it.
GroupBySum(rows) ==
    [d \in Range(Column(rows, "order_date")) |->
        SumSeq([i \in DOMAIN rows |->
                    IF rows[i].order_date = d THEN rows[i].price ELSE 0])]

\* date_range with the end left out.
RECURSIVE date_range_open(_, _)
date_range_open(start, end) ==
    IF start >= end THEN << >>
    ELSE << start >> \o date_range_open(start + Day, end)

\* pd.date_range(start, end): start, start + 1 day, ... while not after end.
RECURSIVE date_range(_, _)
date_range(start, end) ==
    IF start > end THEN << >>
    ELSE << start >> \o date_range(start + Day, end)

\* pd.date_range(start=..., periods=n)
date_range_periods(start, n) == [i \in 1 .. n |-> start + (i - 1) * Day]

\* grouped.reindex(idx, fill_value=fill): one entry per label of idx, the
\* grouped value where the label is a key of grouped and fill elsewhere.
reindex(grouped, idx, fill) ==
    [i \in DOMAIN idx |->
        [date |-> idx[i],
         price |-> IF idx[i] \in DOMAIN grouped THEN grouped[idx[i]] ELSE fill]]

----------------------------------------------------------------------------
(* Exact arithmetic for the metrics.                                       *)

Rat(n, d) == [num |-> n, den |-> d]

RECURSIVE ProdSeq(_)
ProdSeq(s) == IF s = << >> THEN 1 ELSE Head(s) * ProdSeq(Tail(s))

NaN == [nan |-> TRUE, num |-> 0, den |-> 1]
Num(n, d) == [nan |-> FALSE, num |-> n, den |-> d]

----------------------------------------------------------------------------
(* 04_sales_forecasting: the helpers of the notebook.                      *)

\* The rolling mean with min_periods = 1.
RECURSIVE roll_mean_min1(_, _, _, _, _)
roll_mean_min1(data, window, i, sum_x, nobs) ==
    IF i > Len(data) THEN << >>
    ELSE LET added == sum_x + data[i]
             sum1 == IF i > window THEN added - data[i - window] ELSE added
             nobs1 == IF i > window THEN nobs ELSE nobs + 1
         IN  << IF nobs1 >= 1 THEN Num(sum1, nobs1) ELSE NaN >>
               \o roll_mean_min1(data, window, i + 1, sum1, nobs1)

\* data.rolling(window=window).mean(), as pandas computes it: a running sum
\* and a running count of observations, the new value added and the value
\* that left the window removed; min_periods defaults to the window, so an
\* entry with fewer observations is NaN.
RECURSIVE roll_mean(_, _, _, _, _)
roll_mean(data, window, i, sum_x, nobs) ==
    IF i > Len(data) THEN << >>
    ELSE LET added == sum_x + data[i]
             sum1 == IF i > window THEN added - data[i - window] ELSE added
             nobs1 == IF i > window THEN nobs ELSE nobs + 1
         IN  << IF nobs1 >= window THEN Num(sum1, nobs1) ELSE NaN >>
               \o roll_mean(data, window, i + 1, sum1, nobs1)

\* calculate_moving_average(data, window): data is a Series, entries
\* [date, price]; the rolling mean keeps its index.
calculate_moving_average(data, window) ==
    LET ma == roll_mean(Column(data, "price"), window, 1, 0, 0)
    IN  [i \in DOMAIN data |-> [date |-> data[i].date, value |-> ma[i]]]

\* sklearn.metrics.mean_absolute_error
mean_absolute_error(actual, predicted) ==
    Rat(SumSeq([i \in DOMAIN actual |-> Abs(actual[i] - predicted[i])]),
        Len(actual))

\* The mean of the errors with the square left out.
mean_squared_error_abs(actual, predicted) ==
    Rat(SumSeq([i \in DOMAIN actual |-> Abs(actual[i] - predicted[i])]),
        Len(actual))

\* sklearn.metrics.mean_squared_error
mean_squared_error(actual, predicted) ==
    Rat(SumSeq([i \in DOMAIN actual |->
                  (actual[i] - predicted[i]) * (actual[i] - predicted[i])]),
        Len(actual))

\* np.mean(np.abs((actual - predicted) / actual)) * 100 on two pandas Series.
\* Float division does not raise: x / 0 is +-inf and 0 / 0 is NaN.  np.mean
\* of a Series is Series.mean, which skips NaN: the mean is inf when an inf
\* term is present, NaN when every term is NaN, and otherwise the mean of the
\* defined terms.
mean_abs_pct(actual, predicted) ==
    LET idx == DOMAIN actual
        infs == { i \in idx : actual[i] = 0 /\ predicted[i] # 0 }
        defd == { i \in idx : actual[i] # 0 }
        dens == [i \in idx |-> IF i \in defd THEN Abs(actual[i]) ELSE 1]
        common == ProdSeq(dens)
        total == SumSeq([i \in idx |->
                    IF i \in defd
                    THEN Abs(actual[i] - predicted[i]) * (common \div dens[i])
                    ELSE 0])
    IN  IF infs # {} THEN [kind |-> "inf", num |-> 0, den |-> 1]
        ELSE IF defd = {} THEN [kind |-> "nan", num |-> 0, den |-> 1]
        ELSE [kind |-> "finite", num |-> 100 * total,
              den |-> common * Cardinality(defd)]

\* calculate_metrics: rmse is np.sqrt of the mean squared error and is kept
\* as its radicand.
calculate_metrics(actual, predicted) ==
    [mae |-> mean_absolute_error(actual, predicted),
     rmse |-> [radicand |-> mean_squared_error(actual, predicted)],
     mape |-> mean_abs_pct(actual, predicted)]

----------------------------------------------------------------------------
(* 04_sales_forecasting: the model fits.                                   *)

\* What a fit leaves behind: the last label of the index it was fit on and
\* the state the optimiser arrived at.  The notebook constrains neither
\* level nor trend, so a fit draws them from FitParams.
FitParams == { [level |-> 0, trend |-> 0], [level |-> 1, trend |-> 1] }

fit(series, params) ==
    [last |-> series[Len(series)].date, level |-> params.level,
     trend |-> params.trend]

\* A forecast that starts on the last fitted day.
forecast_from_last(results, steps) ==
    [i \in 1 .. steps |->
        [date |-> results.last + (i - 1) * Day,
         value |-> results.level + i * results.trend]]

\* results.forecast(steps): steps values, labelled with the steps days that
\* follow the last label of the fitted index.
forecast(results, steps) ==
    [i \in 1 .. steps |->
        [date |-> results.last + i * Day,
         value |-> results.level + i * results.trend]]

\* A decomposition content with one cycle.
TooShortOneCycle(n) == n < period

\* Fewer observations than two seasonal cycles: seasonal_decompose raises
\* ValueError ("x must have 2 complete cycles").
TooShortToDecompose(n) == n < 2 * period

\* ExponentialSmoothing(...).fit() on fewer than two seasonal cycles: the
\* statsmodels releases with the initialization methods raise ValueError
\* ("Cannot compute initial seasonals using heuristic method with less than
\* two full seasonal cycles"), the releases before them fit.
HoltWintersFitOutcomes(n) == IF n < 2 * period THEN {"raises", "fits"} ELSE {"fits"}

\* The split point rounded to the nearest day.
train_size_rounded(n) == (n * 8 + 5) \div 10

\* The split point at the share of the test set.
train_size_test_share(n) == (n * 2) \div 10

\* int(len(daily_sales) * 0.8)
train_size_of(n) == (n * 8) \div 10

----------------------------------------------------------------------------
(* 04_sales_forecasting: the steps of the notebook.                        *)

\* A failed step that is run again.
Halt_retry(step) ==
    /\ pc' = pc
    /\ trace' = Append(trace, Ran(step, FALSE))

Halt(step) ==
    /\ pc' = "halted"
    /\ trace' = Append(trace, Ran(step, FALSE))

Advance(step, next) ==
    /\ pc' = next
    /\ trace' = Append(trace, Ran(step, TRUE))

\* df = pd.read_csv(...); df['order_date'] = pd.to_datetime(df['order_date'])
LoadData ==
    /\ pc = "load"
    /\ IF csv.exists
       THEN /\ df' = [i \in DOMAIN csv.rows |->
                        [order_date |-> to_datetime(csv.rows[i].order_date),
                         price |-> csv.rows[i].price]]
            /\ Advance("load", "prepare")
       ELSE /\ df' = df
            /\ Halt("load")
    /\ UNCHANGED << csv, daily_sales, decomposition, train_data, test_data,
                    ma_predictions, hw_predictions, sarima_predictions,
                    metrics_df, forecast_df,
                    final_model, files, fnvars >>

\* daily_sales = groupby-sum, reindexed over date_range(min, max) with zero
\* fill.  On an empty frame min and max are NaT and date_range raises.
PrepareSeries ==
    /\ pc = "prepare"
    /\ IF df = << >>
       THEN /\ daily_sales' = daily_sales
            /\ Halt("prepare")
       ELSE LET grouped == GroupBySum(df)
                idx == date_range(SetMin(DOMAIN grouped), SetMax(DOMAIN grouped))
            IN  /\ daily_sales' = reindex(grouped, idx, 0)
                /\ Advance("prepare", "decompose")
    /\ UNCHANGED << csv, df, decomposition, train_data, test_data,
                    ma_predictions, hw_predictions, sarima_predictions,
                    metrics_df, forecast_df,
                    final_model, files, fnvars >>

\* decomposition = seasonal_decompose(daily_sales['price'], period=7)
Decompose ==
    /\ pc = "decompose"
    /\ IF TooShortToDecompose(Len(daily_sales))
       THEN /\ decomposition' = decomposition
            /\ Halt("decompose")
       ELSE /\ decomposition' = TRUE
            /\ Advance("decompose", "split")
    /\ UNCHANGED << csv, df, daily_sales, train_data, test_data,
                    ma_predictions, hw_predictions, sarima_predictions,
                    metrics_df, forecast_df,
                    final_model, files, fnvars >>

\* train_data = daily_sales[:train_size]; test_data = daily_sales[train_size:]
SplitData ==
    /\ pc = "split"
    /\ LET train_size == train_size_of(Len(daily_sales))
       IN  /\ train_data' = SubSeq(daily_sales, 1, train_size)
           /\ test_data' = SubSeq(daily_sales, train_size + 1, Len(daily_sales))
    /\ Advance("split", "moving_average")
    /\ UNCHANGED << csv, df, daily_sales, decomposition,
                    ma_predictions, hw_predictions, sarima_predictions,
                    metrics_df, forecast_df,
                    final_model, files, fnvars >>

\* ma_predictions = calculate_moving_average(train_data['price'], 7)
MovingAverage ==
    /\ pc = "moving_average"
    /\ ma_predictions' = calculate_moving_average(train_data, period)
    /\ Advance("moving_average", "holt_winters")
    /\ UNCHANGED << csv, df, daily_sales, decomposition, train_data, test_data,
                    hw_predictions, sarima_predictions,
                    metrics_df, forecast_df,
                    final_model, files, fnvars >>

\* hw_results = ExponentialSmoothing(train_data['price'], ...).fit()
\* hw_predictions = hw_results.forecast(len(test_data))
FitHoltWinters ==
    /\ pc = "holt_winters"
    /\ \E outcome \in HoltWintersFitOutcomes(Len(train_data)) :
         IF outcome = "raises"
         THEN /\ hw_predictions' = hw_predictions
              /\ Halt("holt_winters")
         ELSE \E params \in FitParams :
                /\ hw_predictions' =
                       forecast(fit(train_data, params), Len(test_data))
                /\ Advance("holt_winters", "sarima")
    /\ UNCHANGED << csv, df, daily_sales, decomposition, train_data, test_data,
                    ma_predictions, sarima_predictions,
                    metrics_df, forecast_df,
                    final_model, files, fnvars >>

\* sarima_results = SARIMAX(train_data['price'], ...).fit()
\* sarima_predictions = sarima_results.forecast(len(test_data))
FitSarima ==
    /\ pc = "sarima"
    /\ \E params \in FitParams :
         sarima_predictions' = forecast(fit(train_data, params), Len(test_data))
    /\ Advance("sarima", "evaluate")
    /\ UNCHANGED << csv, df, daily_sales, decomposition, train_data, test_data,
                    ma_predictions, hw_predictions,
                    metrics_df, forecast_df,
                    final_model, files, fnvars >>

MetricsRow(model, m) ==
    [Model |-> model, MAE |-> m.mae, RMSE |-> m.rmse, MAPE |-> m.mape]

\* An evaluation whose division raises on a zero actual value.
Evaluate_ZeroDivision ==
    /\ pc = "evaluate"
    /\ LET actual == Column(test_data, "price")
           hw == calculate_metrics(actual, Column(hw_predictions, "value"))
           sarima == calculate_metrics(actual, Column(sarima_predictions, "value"))
       IN  IF \E i \in DOMAIN actual : actual[i] = 0
           THEN /\ metrics_df' = metrics_df
                /\ Halt("evaluate")
           ELSE /\ metrics_df' = << MetricsRow("Holt-Winters", hw),
                                    MetricsRow("SARIMA", sarima) >>
                /\ Advance("evaluate", "final_forecast")
    /\ UNCHANGED << csv, df, daily_sales, decomposition, train_data, test_data,
                    ma_predictions, hw_predictions, sarima_predictions,
                    forecast_df,
                    final_model, files, fnvars >>

\* calculate_metrics for both models, then the comparison table.  No step of
\* it raises on a zero actual value.
Evaluate ==
    /\ pc = "evaluate"
    /\ LET actual == Column(test_data, "price")
           hw == calculate_metrics(actual, Column(hw_predictions, "value"))
           sarima == calculate_metrics(actual, Column(sarima_predictions, "value"))
       IN  metrics_df' = << MetricsRow("Holt-Winters", hw),
                            MetricsRow("SARIMA", sarima) >>
    /\ Advance("evaluate", "final_forecast")
    /\ UNCHANGED << csv, df, daily_sales, decomposition, train_data, test_data,
                    ma_predictions, hw_predictions, sarima_predictions,
                    forecast_df,
                    final_model, files, fnvars >>

\* ExponentialSmoothing(endog, seasonal_periods=7, trend='add', seasonal='add')
HoltWinters(endog) == [model |-> "Holt-Winters", endog |-> endog]

\* a / b < c / d for means with positive denominators
LessThan(x, y) == x.num * y.den < y.num * x.den

\* A final forecast by the model of the lower MAE in the comparison table.
FinalForecast_best ==
    /\ pc = "final_forecast"
    /\ final_model' = IF LessThan(metrics_df[2].MAE, metrics_df[1].MAE)
                      THEN [model |-> "SARIMA",
                            endog |-> Column(daily_sales, "price")]
                      ELSE HoltWinters(Column(daily_sales, "price"))
    /\ \E params \in FitParams :
         LET last_date == daily_sales[Len(daily_sales)].date
             future_dates == date_range_periods(last_date + Day, future_periods)
             future_predictions ==
                 forecast(fit(daily_sales, params), future_periods)
         IN  forecast_df' = [i \in DOMAIN future_predictions |->
                               [Date |-> future_dates[i],
                                Predicted_Sales |-> future_predictions[i].value,
                                index |-> future_predictions[i].date]]
    /\ Advance("final_forecast", "save")
    /\ UNCHANGED << csv, df, daily_sales, decomposition, train_data, test_data,
                    ma_predictions, hw_predictions, sarima_predictions,
                    metrics_df, files, fnvars >>

\* final_model = ExponentialSmoothing(daily_sales['price'], ...) fit on the
\* whole series (at least two cycles long once decomposition has passed),
\* whatever metrics_df holds; future_dates and future_predictions make
\* forecast_df.
FinalForecast ==
    /\ pc = "final_forecast"
    /\ final_model' = HoltWinters(Column(daily_sales, "price"))
    /\ \E params \in FitParams :
         LET last_date == daily_sales[Len(daily_sales)].date
             future_dates == date_range_periods(last_date + Day, future_periods)
             future_predictions ==
                 forecast(fit(daily_sales, params), future_periods)
         IN  forecast_df' = [i \in DOMAIN future_predictions |->
                               [Date |-> future_dates[i],
                                Predicted_Sales |-> future_predictions[i].value,
                                index |-> future_predictions[i].date]]
    /\ Advance("final_forecast", "save")
    /\ UNCHANGED << csv, df, daily_sales, decomposition, train_data, test_data,
                    ma_predictions, hw_predictions, sarima_predictions,
                    metrics_df, files, fnvars >>

\* forecast_df.to_csv(...), then metrics_df.to_csv(...): a write that fails
\* raises and leaves the files written before it.
SaveOutcomes == { "saved", "forecast_write_fails", "metrics_write_fails" }

\* frame.to_csv(path, index=False): the columns of the frame without its
\* index, one line per row.
to_csv(name, frame) ==
    [name |-> name,
     columns |-> IF frame = << >> THEN {} ELSE DOMAIN frame[1] \ {"index"},
     rows |-> Len(frame)]

Save ==
    /\ pc = "save"
    /\ \E outcome \in SaveOutcomes :
         /\ files' = CASE outcome = "saved" ->
                            files \cup { to_csv("sales_forecast.csv", forecast_df),
                                         to_csv("model_metrics.csv", metrics_df) }
                       [] outcome = "forecast_write_fails" -> files
                       [] outcome = "metrics_write_fails" ->
                            files \cup { to_csv("sales_forecast.csv", forecast_df) }
         /\ IF outcome = "saved" THEN Advance("save", "done") ELSE Halt("save")
    /\ UNCHANGED << csv, df, daily_sales, decomposition, train_data, test_data,
                    ma_predictions, hw_predictions, sarima_predictions,
                    metrics_df, forecast_df, final_model, fnvars >>

----------------------------------------------------------------------------
(* The input files and the specifications of the forecasting notebook.     *)

InputRows(days, hours) ==
    { [order_date |-> [day |-> d, hour |-> h], price |-> p] :
        d \in days, h \in hours, p \in Prices }

\* Row order plays no part in any step (groupby sorts its keys): the rows
\* are drawn in order of their date.
InDateOrder(rows) ==
    \A i, j \in DOMAIN rows :
        i < j => to_datetime(rows[i].order_date) <= to_datetime(rows[j].order_date)

CsvFiles(days, hours) ==
    { [exists |-> FALSE, rows |-> << >>] } \cup
    { [exists |-> TRUE, rows |-> r] :
        r \in { s \in SeqOf(InputRows(days, hours), MaxRows) : InDateOrder(s) } }

NotebookStart ==
    /\ pc = "load"
    /\ df = << >>
    /\ daily_sales = << >>
    /\ decomposition = FALSE
    /\ train_data = << >>
    /\ test_data = << >>
    /\ ma_predictions = << >>
    /\ hw_predictions = << >>
    /\ sarima_predictions = << >>
    /\ metrics_df = << >>
    /\ forecast_df = << >>
    /\ final_model = [model |-> "none", endog |-> << >>]
    /\ files = {}
    /\ trace = << >>

NoCall ==
    /\ fn = "none"
    /\ args = << >>
    /\ result = [kind |-> "none"]

Init ==
    /\ csv \in CsvFiles(0 .. MaxDay, {0})
    /\ NotebookStart
    /\ NoCall

Next ==
    \/ LoadData
    \/ PrepareSeries
    \/ Decompose
    \/ SplitData
    \/ MovingAverage
    \/ FitHoltWinters
    \/ FitSarima
    \/ Evaluate
    \/ FinalForecast
    \/ Save

Spec == Init /\ [][Next]_vars

\* The preparation steps alone, on timestamps that carry an hour of the day.
InitPrep ==
    /\ csv \in CsvFiles(0 .. PrepMaxDay, TimesOfDay)
    /\ NotebookStart
    /\ NoCall

NextPrep ==
    \/ LoadData
    \/ PrepareSeries

SpecPrep == InitPrep /\ [][NextPrep]_vars

----------------------------------------------------------------------------
(* Properties of the forecasting notebook.                                 *)

Attempted(step) == \E i \in DOMAIN trace : trace[i].step = step
Completed(step) == \E i \in DOMAIN trace : trace[i] = Ran(step, TRUE)
Failed(step) == \E i \in DOMAIN trace : trace[i] = Ran(step, FALSE)

LastDate(series) == series[Len(series)].date

\* C1: the daily series holds (max_date - min_date).days + 1 entries, the
\* first on the earliest order date, each one calendar day after the one
\* before it: increasing, without gap and without duplicate.
C1_DailySeriesContiguous ==
    daily_sales # << >> =>
        LET dates == Range(Column(df, "order_date"))
            n == Len(daily_sales)
        IN  /\ n = (SetMax(dates) - SetMin(dates)) \div Day + 1
            /\ daily_sales[1].date = SetMin(dates)
            /\ daily_sales[n].date <= SetMax(dates)
            /\ \A i \in 1 .. n - 1 :
                 /\ daily_sales[i + 1].date = daily_sales[i].date + Day
                 /\ daily_sales[i + 1].date \div Day = daily_sales[i].date \div Day + 1
            /\ \A i, j \in 1 .. n : i < j => daily_sales[i].date < daily_sales[j].date

\* A series with a zero-filled day between two order dates whose hours differ.
C1_Witness ==
    /\ Len(daily_sales) = 3
    /\ daily_sales[2].date \notin Range(Column(df, "order_date"))
    /\ \E i, j \in DOMAIN df : df[i].order_date % Day # df[j].order_date % Day

\* The total price of the rows of the frame ordered on the calendar day of a
\* timestamp.
SalesOfDay(rows, date) ==
    SumSeq([i \in DOMAIN rows |->
                IF rows[i].order_date \div Day = date \div Day
                THEN rows[i].price ELSE 0])

\* C13: each entry of the daily series holds the sum of price over the
\* transactions ordered on its calendar day, 0 on a day without transactions,
\* and the entries add up to the total price of all transactions.
C13_DailySumsOfTheDay ==
    daily_sales # << >> =>
        /\ \A i \in DOMAIN daily_sales :
             daily_sales[i].price = SalesOfDay(df, daily_sales[i].date)
        /\ SumSeq(Column(daily_sales, "price")) = SumSeq(Column(df, "price"))

C6_TrainTestSplit ==
    Completed("split") =>
        LET n == Len(daily_sales)
            t == Len(train_data)
        IN  /\ 5 * t <= 4 * n
            /\ 4 * n < 5 * (t + 1)
            /\ Len(test_data) = n - t
            /\ train_data \o test_data = daily_sales
            /\ \A i \in DOMAIN train_data : train_data[i] = daily_sales[i]
            /\ \A i \in DOMAIN train_data, j \in DOMAIN test_data :
                 train_data[i].date < test_data[j].date
            /\ Range(Column(train_data, "date")) \cap
                 Range(Column(test_data, "date")) = {}
            /\ test_data[1].date = LastDate(train_data) + Day
            /\ train_size_of(100) = 80
            /\ 100 - train_size_of(100) = 20

\* A split of a series whose length is no multiple of 5.
C6_Witness ==
    /\ Completed("split")
    /\ (4 * Len(daily_sales)) % 5 # 0
    /\ Len(test_data) > 0

\* C15: the training split of a daily series of at least one seasonal cycle
\* (7 days) holds at least one cycle and its test split is not empty.
C15_OneCycleLeavesOneCycle ==
    (Completed("prepare") /\ Len(daily_sales) >= period) =>
        /\ train_size_of(Len(daily_sales)) >= period
        /\ Len(daily_sales) - train_size_of(Len(daily_sales)) >= 1

\* C15 (amended): a series that reaches the split has passed decomposition
\* and is two cycles (14 days) long or longer; its training split holds at
\* least one cycle, its test split is not empty, and so every fit on the
\* training split is given one cycle or more.
C15_TwoCyclesLeaveOneCycle ==
    /\ (Completed("decompose") /\ Len(daily_sales) >= 2 * period) =>
           /\ train_size_of(Len(daily_sales)) >= period
           /\ Len(daily_sales) - train_size_of(Len(daily_sales)) >= 1
    /\ Completed("split") =>
           /\ Len(daily_sales) >= 2 * period
           /\ Len(train_data) >= period
           /\ Len(test_data) >= 1
    /\ (Attempted("holt_winters") \/ Attempted("sarima")) =>
           Len(train_data) >= period

\* The shortest series that is split: 14 days, 11 of them for training, and
\* both fits made on those 11.
C15_Witness ==
    /\ Completed("holt_winters")
    /\ Completed("sarima")
    /\ Len(daily_sales) = 2 * period
    /\ Len(train_data) = 11
    /\ Len(test_data) = 3

NoModelFit ==
    /\ ma_predictions = << >>
    /\ hw_predictions = << >>
    /\ sarima_predictions = << >>
    /\ forecast_df = << >>
    /\ ~ Attempted("moving_average")
    /\ ~ Attempted("holt_winters")
    /\ ~ Attempted("sarima")
    /\ ~ Attempted("final_forecast")

\* C8 as stated: a series of fewer than 7 days fails before any model is
\* fit, a series of 7 days or more passes preparation and decomposition.
C8_OneCycleSuffices ==
    /\ (Attempted("decompose") /\ Len(daily_sales) < period) =>
           (pc = "halted" /\ NoModelFit)
    /\ (Completed("prepare") /\ Len(daily_sales) >= period) =>
           ~ Failed("decompose")

\* C8 (amended): a series of fewer than 14 days, two seasonal cycles, fails
\* in decomposition before any model is fit; a series of 14 days or more
\* passes preparation and decomposition.
C8_TwoCyclesNeeded ==
    /\ (Attempted("decompose") /\ Len(daily_sales) < 2 * period) =>
           (Failed("decompose") /\ pc = "halted" /\ NoModelFit)
    /\ (Attempted("decompose") /\ Len(daily_sales) >= 2 * period) =>
           (Completed("decompose") /\ decomposition)
    /\ Completed("prepare") => ~ Failed("prepare")

\* A series of at least one and less than two cycles, failed in decomposition.
C8_Witness ==
    /\ Failed("decompose")
    /\ Len(daily_sales) >= period
    /\ Len(daily_sales) < 2 * period

Follows(predictions, series, h) ==
    /\ Len(predictions) = h
    /\ \A i \in 1 .. h : predictions[i].date = LastDate(series) + i * Day

OnTheDaysOf(predictions, series) ==
    /\ Len(predictions) = Len(series)
    /\ \A i \in DOMAIN series : predictions[i].date = series[i].date

ForecastsFollowCutoff ==
    /\ Completed("holt_winters") =>
           /\ Follows(hw_predictions, train_data, Len(test_data))
           /\ OnTheDaysOf(hw_predictions, test_data)
    /\ Completed("sarima") =>
           /\ Follows(sarima_predictions, train_data, Len(test_data))
           /\ OnTheDaysOf(sarima_predictions, test_data)
    /\ Completed("final_forecast") =>
           /\ Len(forecast_df) = future_periods
           /\ \A i \in 1 .. future_periods :
                /\ forecast_df[i].Date = LastDate(daily_sales) + i * Day
                /\ forecast_df[i].index = forecast_df[i].Date

\* C2 as stated: all three strategies, the moving average among them, return
\* h predictions on the h days that follow the training cutoff, and the
\* final forecast is on the 30 days that follow the series.
C2_AllThreeFollowCutoff ==
    /\ ForecastsFollowCutoff
    /\ Completed("moving_average") =>
           Follows(ma_predictions, train_data, Len(test_data))

\* C2 (amended): Holt-Winters and SARIMA return h predictions on the h days
\* that follow the training cutoff and the final forecast is on the 30 days
\* that follow the series; the moving average takes no horizon and returns
\* one entry for each day of the series it is given.
C2_FittedModelsFollowCutoff ==
    /\ ForecastsFollowCutoff
    /\ Completed("moving_average") => OnTheDaysOf(ma_predictions, train_data)

\* A run in which the three strategies and the final forecast have returned.
C2_Witness ==
    /\ Completed("moving_average")
    /\ Completed("holt_winters")
    /\ Completed("sarima")
    /\ Completed("final_forecast")
    /\ Len(test_data) > 0
    /\ Len(forecast_df) > 0

ZeroActual == \E i \in DOMAIN test_data : test_data[i].price = 0

\* C7 as stated: with a zero among the actual values the evaluation fails,
\* no MAPE is returned and the notebook halts before the metrics table.
C7_ZeroActualHalts ==
    (Attempted("evaluate") /\ ZeroActual) =>
        (Failed("evaluate") /\ pc = "halted" /\ metrics_df = << >>)

\* C7 (amended): with a zero among the actual values the evaluation does not
\* fail: calculate_metrics returns a MAPE for both models, infinite exactly
\* when some zero actual value has a non-zero prediction and otherwise NaN or
\* the mean over the days with a non-zero actual value, and the metrics
\* table is built.
C7_ZeroActualYieldsMape ==
    (Attempted("evaluate") /\ ZeroActual) =>
        /\ Completed("evaluate")
        /\ pc # "halted" \/ Failed("save")
        /\ Len(metrics_df) = 2
        /\ \A r \in DOMAIN metrics_df :
             LET predicted == IF r = 1 THEN hw_predictions ELSE sarima_predictions
                 mape == metrics_df[r].MAPE
             IN  /\ mape.kind \in { "finite", "inf", "nan" }
                 /\ mape.kind = "inf" <=>
                        \E i \in DOMAIN test_data :
                            test_data[i].price = 0 /\ predicted[i].value # 0
                 /\ mape.kind = "nan" <=>
                        \A i \in DOMAIN test_data :
                            test_data[i].price = 0 /\ predicted[i].value = 0

\* An evaluation over a test set with a zero in it: one infinite MAPE and
\* one that is not.
C7_Witness ==
    /\ Completed("evaluate")
    /\ ZeroActual
    /\ metrics_df[1].MAPE.kind = "inf"
    /\ metrics_df[2].MAPE.kind # "inf"

StepOutput(step) ==
    CASE step = "prepare" -> daily_sales
      [] step = "split" -> train_data \o test_data
      [] step = "moving_average" -> ma_predictions
      [] step = "holt_winters" -> hw_predictions
      [] step = "sarima" -> sarima_predictions
      [] step = "evaluate" -> metrics_df
      [] step = "final_forecast" -> forecast_df
      [] OTHER -> << >>

\* C10: the steps run in the order load, prepare, decompose, split, fits,
\* evaluate, final forecast, save, each at most once; a failed step is the
\* last step of the run; no step has produced anything unless every step up
\* to it completed; and the two CSV files, with the columns
\* {Date, Predicted_Sales} and {Model, MAE, RMSE, MAPE}, are written only
\* when every earlier step completed.
C10_StepsInOrderNoRetry ==
    /\ Len(trace) <= Len(StepOrder)
    /\ \A i \in DOMAIN trace : trace[i].step = StepOrder[i]
    /\ \A i \in DOMAIN trace :
         ~ trace[i].ok => (i = Len(trace) /\ pc = "halted")
    /\ pc = "halted" => (trace # << >> /\ ~ trace[Len(trace)].ok)
    /\ pc \notin {"halted", "done"} => pc = StepOrder[Len(trace) + 1]
    /\ \A k \in DOMAIN StepOrder :
         StepOutput(StepOrder[k]) # << >> =>
             \A i \in 1 .. k : i \in DOMAIN trace /\ trace[i].ok
    /\ files # {} =>
         \A i \in 1 .. Len(StepOrder) - 1 : trace[i] = Ran(StepOrder[i], TRUE)
    /\ \A f \in files :
         \/ /\ f.name = "sales_forecast.csv"
            /\ f.columns = {"Date", "Predicted_Sales"}
            /\ f.rows = future_periods
         \/ /\ f.name = "model_metrics.csv"
            /\ f.columns = {"Model", "MAE", "RMSE", "MAPE"}
            /\ Completed("save")
    /\ pc = "done" <=> Completed("save")
    /\ Completed("save") => Cardinality(files) = 2

\* A run that wrote both files, and so passed every step.
C10_Witness ==
    /\ pc = "done"
    /\ Cardinality(files) = 2
    /\ Len(trace) = Len(StepOrder)

----------------------------------------------------------------------------
(* The helpers of the forecasting notebook applied on their own.           *)

Values == 0 .. MaxValue

Returned(v) == [kind |-> "returned", value |-> v]

\* A Series of the given values on consecutive days.
DailySeries(values) ==
    [i \in DOMAIN values |-> [date |-> (i - 1) * Day, price |-> values[i]]]

InitMovingAverage ==
    /\ csv = [exists |-> FALSE, rows |-> << >>]
    /\ NotebookStart
    /\ fn = "calculate_moving_average"
    /\ \E values \in SeqOf(Values, MaxLen), window \in 1 .. MaxWindow :
         args = [data |-> DailySeries(values), window |-> window]
    /\ result = [kind |-> "none"]

CallMovingAverage ==
    /\ fn = "calculate_moving_average"
    /\ result.kind = "none"
    /\ result' = Returned(calculate_moving_average(args.data, args.window))
    /\ UNCHANGED << nbvars, fn, args >>

SpecMovingAverage == InitMovingAverage /\ [][CallMovingAverage]_vars

InitMetrics ==
    /\ csv = [exists |-> FALSE, rows |-> << >>]
    /\ NotebookStart
    /\ fn = "calculate_metrics"
    /\ \E n \in 1 .. MaxPairLen :
         \E actual \in [1 .. n -> Values], predicted \in [1 .. n -> Values] :
            args = [actual |-> actual, predicted |-> predicted]
    /\ result = [kind |-> "none"]

CallMetrics ==
    /\ fn = "calculate_metrics"
    /\ result.kind = "none"
    /\ result' = Returned(calculate_metrics(args.actual, args.predicted))
    /\ UNCHANGED << nbvars, fn, args >>

SpecMetrics == InitMetrics /\ [][CallMetrics]_vars

WindowSum(data, t, w) ==
    SumSeq([k \in 1 .. w |-> data[t - w + k].price])

\* C3: the moving average has the length and the index of its input; its
\* first w - 1 entries are undefined and every later entry is the mean of
\* the w input values that end at it.
C3_MovingAverage ==
    (fn = "calculate_moving_average" /\ result.kind = "returned") =>
        LET data == args.data
            w == args.window
            out == result.value
        IN  /\ Len(out) = Len(data)
            /\ \A t \in DOMAIN data :
                 /\ out[t].date = data[t].date
                 /\ t < w => out[t].value.nan
                 /\ t >= w =>
                      /\ ~ out[t].value.nan
                      /\ out[t].value.den > 0
                      /\ out[t].value.num * w =
                             WindowSum(data, t, w) * out[t].value.den

\* A moving average with undefined entries at the start and defined entries
\* after them, over windows that have slid.
C3_Witness ==
    /\ fn = "calculate_moving_average"
    /\ result.kind = "returned"
    /\ args.window = 2
    /\ Len(args.data) = 4
    /\ result.value[1].value.nan
    /\ result.value[4].value = Num(3, 2)

AbsErrors == [i \in DOMAIN args.actual |-> Abs(args.actual[i] - args.predicted[i])]

\* rmse >= mae and rmse = mae, compared on the squares: both are >= 0.
RmseAtLeastMae(m) ==
    m.rmse.radicand.num * m.mae.den * m.mae.den >=
        m.mae.num * m.mae.num * m.rmse.radicand.den

RmseEqualsMae(m) ==
    m.rmse.radicand.num * m.mae.den * m.mae.den =
        m.mae.num * m.mae.num * m.rmse.radicand.den

----------------------------------------------------------------------------
(* 03_customer_segmentation: RFM quantile scoring.                         *)

RECURSIVE Insert(_, _)
Insert(x, sorted) ==
    IF sorted = << >> THEN << x >>
    ELSE IF x <= Head(sorted) THEN << x >> \o sorted
    ELSE << Head(sorted) >> \o Insert(x, Tail(sorted))

RECURSIVE Sorted(_)
Sorted(s) == IF s = << >> THEN << >> ELSE Insert(Head(s), Sorted(Tail(s)))

\* Series.quantile(k / q), linear interpolation, times q: the position
\* (n - 1) * k / q falls between two neighbours of the sorted values.
QuantileTimes(values, k, q) ==
    LET sorted == Sorted(values)
        pos == (Len(values) - 1) * k
        lo == pos \div q + 1
        frac == pos % q
    IN  IF frac = 0 THEN q * sorted[lo]
        ELSE q * sorted[lo] + frac * (sorted[lo + 1] - sorted[lo])

\* pd.qcut(x, q, labels): the q + 1 quantile edges; with an edge that
\* repeats it raises ValueError ("Bin edges must be unique"); otherwise an
\* entry falls in bin searchsorted(edges, x, side='left'), the lowest edge
\* being included in bin 1, and takes the label of its bin.
qcut(x, q, labels) ==
    LET edges == [k \in 0 .. q |-> QuantileTimes(x, k, q)]
        bin(v) == IF q * v = edges[0] THEN 1
                  ELSE Cardinality({ k \in 0 .. q : edges[k] < q * v })
    IN  IF \E j, k \in 0 .. q : j # k /\ edges[j] = edges[k]
        THEN [kind |-> "raised", error |-> "Bin edges must be unique"]
        ELSE Returned([i \in DOMAIN x |-> labels[bin(x[i])]])

\* The loop body with the labels of recency in the order of the other two.
rfm_score_unreversed(metric, values) ==
    qcut(values, 5, << 1, 2, 3, 4, 5 >>)

\* The body of the scoring loop for one metric: recency is scored in reverse.
rfm_score(metric, values) ==
    IF metric = "recency"
    THEN qcut(values, 5, << 5, 4, 3, 2, 1 >>)
    ELSE qcut(values, 5, << 1, 2, 3, 4, 5 >>)

Metrics == { "recency", "frequency", "monetary" }

\* The values a column of rfm can hold: a customer of the table has at least
\* one order, and the customer of the latest order has recency 0.
MetricValues(metric) ==
    IF metric = "frequency" THEN 1 .. MaxMetric + 1 ELSE 0 .. MaxMetric

InitScoring ==
    /\ csv = [exists |-> FALSE, rows |-> << >>]
    /\ NotebookStart
    /\ fn = "rfm_score"
    /\ \E metric \in Metrics, n \in 1 .. MaxCustomers :
         \E values \in [1 .. n -> MetricValues(metric)] :
            /\ metric = "recency" => \E i \in 1 .. n : values[i] = 0
            /\ args = [metric |-> metric, values |-> values]
    /\ result = [kind |-> "none"]

ScoreMetric ==
    /\ fn = "rfm_score"
    /\ result.kind = "none"
    /\ result' = rfm_score(args.metric, args.values)
    /\ UNCHANGED << nbvars, fn, args >>

SpecScoring == InitScoring /\ [][ScoreMetric]_vars

BucketSize(scores, b) == Cardinality({ i \in DOMAIN scores : scores[i] = b })

\* C5: scoring gives every customer one score in 1..5 and the sizes of the
\* five buckets differ by at most 1, ties or no ties.
C5_FiveEqualBuckets ==
    (fn = "rfm_score" /\ result.kind # "none") =>
        /\ result.kind = "returned"
        /\ Len(result.value) = Len(args.values)
        /\ \A i \in DOMAIN result.value : result.value[i] \in 1 .. 5
        /\ \A a, b \in 1 .. 5 :
             BucketSize(result.value, a) - BucketSize(result.value, b) <= 1

----------------------------------------------------------------------------
(* Data cleaning: the outlier-handling cell.                               *)

Amounts == -1 .. MaxPrice

\* Series.quantile(k / 4) times 4.
QuartileTimes4(values, k) == QuantileTimes(values, k, 4)

\* The rows whose value in the column lies within threshold * IQR of the
\* quartiles; threshold is 1.5 = 3 / 2, and the comparison is made on
\* 8 times the values.
WithinIqr(data, column) ==
    LET values == Column(data, column)
        q1 == QuartileTimes4(values, 1)
        q3 == QuartileTimes4(values, 3)
        lower == 2 * q1 - 3 * (q3 - q1)
        upper == 2 * q3 + 3 * (q3 - q1)
        Keep(row) == lower <= 8 * row[column] /\ 8 * row[column] <= upper
    IN  IF data = << >> THEN data ELSE SelectSeq(data, Keep)

\* processor.handle_outliers(columns=['price', 'quantity'], method='iqr',
\* threshold=1.5): one column after the other.
handle_outliers(data) == WithinIqr(WithinIqr(data, "price"), "quantity")

InitOutliers ==
    /\ csv = [exists |-> FALSE, rows |-> << >>]
    /\ NotebookStart
    /\ fn = "handle_outliers"
    /\ \E n \in 1 .. MaxPairLen :
         \E prices \in [1 .. n -> Amounts], quantities \in [1 .. n -> Amounts] :
            args = [data |-> [i \in 1 .. n |->
                        [price |-> prices[i], quantity |-> quantities[i]]]]
    /\ result = [kind |-> "none"]

HandleOutliers ==
    /\ fn = "handle_outliers"
    /\ result.kind = "none"
    /\ result' = Returned(handle_outliers(args.data))
    /\ UNCHANGED << nbvars, fn, args >>

SpecOutliers == InitOutliers /\ [][HandleOutliers]_vars

\* C9: after outlier handling every remaining record has price >= 0 and
\* quantity >= 0.
C9_NonNegativeAfterOutliers ==
    (fn = "handle_outliers" /\ result.kind = "returned") =>
        \A i \in DOMAIN result.value :
            result.value[i].price >= 0 /\ result.value[i].quantity >= 0

\* C12: the scores of one metric follow the order of its values: of two
\* customers the one with the smaller (or equal) recency has the higher (or
\* equal) recency score, and the one with the smaller (or equal) frequency or
\* monetary value has the lower (or equal) score of that metric.
C12_ScoresMonotone ==
    (fn = "rfm_score" /\ result.kind = "returned") =>
        \A a, b \in DOMAIN args.values :
            args.values[a] <= args.values[b] =>
                IF args.metric = "recency"
                THEN result.value[a] >= result.value[b]
                ELSE result.value[a] <= result.value[b]

\* Recency scores of customers of whom two are tied and two are not.
C12_Witness ==
    /\ fn = "rfm_score"
    /\ args.metric = "recency"
    /\ result.kind = "returned"
    /\ \E a, b \in DOMAIN args.values :
         /\ a # b
         /\ args.values[a] = args.values[b]
         /\ result.value[a] = result.value[b]
    /\ \E a, b \in DOMAIN args.values :
         /\ args.values[a] < args.values[b]
         /\ result.value[a] > result.value[b]

----------------------------------------------------------------------------
(* 03_customer_segmentation: the RFM metrics.                              *)

CustomerIds == { "c1", "c2" }

\* The rows of one customer, in the order of the frame.
RowsOf(rows, customer) ==
    SelectSeq(rows, LAMBDA r : r.customer_id = customer)

\* Timedelta.days: the whole days of a difference of two timestamps.
days(delta) == delta \div Day

\* The anchor read from the wall clock instead of the data.
current_date_now(rows, now) == now

\* current_date = df['order_date'].max(); the wall clock is not read.
current_date_of(rows, now) == SetMax(Range(Column(rows, "order_date")))

\* rfm = df.groupby('customer_id').agg(...): one record per customer that has
\* a row; recency is the whole days from the customer's latest order to
\* current_date, frequency counts the rows, monetary sums their prices.
rfm_of(rows, now) ==
    LET current_date == current_date_of(rows, now)
    IN  [c \in Range(Column(rows, "customer_id")) |->
            LET own == RowsOf(rows, c)
            IN  [recency |->
                     days(current_date - SetMax(Range(Column(own, "order_date")))),
                 frequency |-> Len(own),
                 monetary |-> SumSeq(Column(own, "price"))]]

OrderRows ==
    { [customer_id |-> c, order_date |-> d * Day + h, price |-> p] :
        c \in CustomerIds, d \in 0 .. PrepMaxDay, h \in TimesOfDay, p \in Prices }

\* The wall clock of a run: some day after the last order of the data.
ClockReadings == { (PrepMaxDay + 1) * Day, (PrepMaxDay + 3) * Day + 12 }

InitRfm ==
    /\ csv = [exists |-> FALSE, rows |-> << >>]
    /\ NotebookStart
    /\ fn = "rfm"
    /\ \E n \in 1 .. MaxRows :
         \E rows \in [1 .. n -> OrderRows], now \in ClockReadings :
            /\ \A i, j \in 1 .. n : i < j => rows[i].order_date <= rows[j].order_date
            /\ args = [df |-> rows, now |-> now]
    /\ result = [kind |-> "none"]

ComputeRfm ==
    /\ fn = "rfm"
    /\ result.kind = "none"
    /\ result' = Returned(rfm_of(args.df, args.now))
    /\ UNCHANGED << nbvars, fn, args >>

SpecRfm == InitRfm /\ [][ComputeRfm]_vars

LatestOrder(rows) == SetMax(Range(Column(rows, "order_date")))

\* C11: the recency of a customer is the number of whole days from the
\* customer's latest order to the latest order of the dataset, whatever the
\* wall clock reads; every recency is >= 0 and some customer has recency 0.
C11_RecencyFromLatestOrder ==
    (fn = "rfm" /\ result.kind = "returned") =>
        LET rfm == result.value
            anchor == LatestOrder(args.df)
        IN  /\ DOMAIN rfm = Range(Column(args.df, "customer_id"))
            /\ \A c \in DOMAIN rfm :
                 LET latest == LatestOrder(RowsOf(args.df, c))
                 IN  /\ rfm[c].recency * Day <= anchor - latest
                     /\ anchor - latest < (rfm[c].recency + 1) * Day
                     /\ rfm[c].recency >= 0
            /\ \E c \in DOMAIN rfm : rfm[c].recency = 0

\* Two customers, one of them a whole day and some hours behind the other.
C11_Witness ==
    /\ fn = "rfm"
    /\ result.kind = "returned"
    /\ \E c, d \in DOMAIN result.value :
         /\ result.value[c].recency = 0
         /\ result.value[d].recency = 1
         /\ LatestOrder(args.df) - LatestOrder(RowsOf(args.df, d)) > Day

====
